---- MODULE Spec2Model ----
(***************************************************************************)
(* A model of mywheels: the CMC output reader (cmcutils/readoutput.py),    *)
(* the CMC model catalog (cmcutils/readcatalog.py) and the matching of     *)
(* observed globular clusters to CMC snapshots (gccatalogs/aggregate.py).  *)
(*                                                                         *)
(* Numbers that the code holds as floats are exact rationals <<n, d>>      *)
(* with d > 0; <<1, 0>> and <<-1, 0>> are the two infinities and <<0, 0>>  *)
(* is NaN.  Strings are sequences of symbols; a symbol is a character or   *)
(* a group of characters that none of the modelled operations splits.      *)
(***************************************************************************)
EXTENDS Integers, Sequences, FiniteSets, TLC

VARIABLES
    pc,         \* position of the caller in the operation under way
    ustring,    \* _parse_units_string: the unit expression given
    uresult,    \* _parse_units_string: what the call gave
    dat,        \* a _dat_file object: df, units_converted (and the history nmul)
    ncalls,     \* number of convert_units calls made on dat by its user
    mname,      \* _parse_model_name: the model name given
    mresult,    \* _parse_model_name: what the call gave
    sel_file,   \* _select_dat_data: the rows of the model's dat file
    sel_ts,     \* _select_dat_data: the target times (timesteps)
    sel_out,    \* _select_dat_data: what the call gave
    mode,       \* who uses the catalog: "driver" (match_to_cmc_models) or "api"
    listing,    \* os.listdir(path): the entries of the catalog directory
    cat,        \* the CMCCatalog object: mp_nprocs and df
    calls,      \* history: the catalog's methods that returned, in order
    kw_usecols, \* the caller's dat_kwargs["pd_kwargs"]["usecols"] list
    kw_usecols0, \* history: that list as the caller passed it
    task,       \* add_dat_timesteps under way: its arguments and timesteps
    results,    \* add_dat_timesteps under way: what each model's call gave
    gc_models,  \* match_to_cmc_models: cmc_models.df, the table of snapshots
    gc_clusters, \* match_to_cmc_models: self.df, the table of observed clusters
    loop,       \* match_to_cmc_models: the locals of the two bin loops
    dfs,        \* match_to_cmc_models: the matched tables of the bins so far
    gc_df       \* match_to_cmc_models: self.df as the call leaves it

vars == <<pc, ustring, uresult, dat, ncalls, mname, mresult,
          sel_file, sel_ts, sel_out,
          mode, listing, cat, calls, kw_usecols, kw_usecols0, task, results,
          gc_models, gc_clusters, loop, dfs, gc_df>>
varsParse == <<ustring, uresult>>
varsUnits == <<dat, ncalls>>
varsName == <<mname, mresult>>
varsSelect == <<sel_file, sel_ts, sel_out>>
varsCatalog == <<mode, listing, cat, calls, kw_usecols, kw_usecols0, task, results>>
varsMatch == <<gc_models, gc_clusters, loop, dfs, gc_df>>

-----------------------------------------------------------------------------
(* Exact arithmetic on rationals <<n, d>>, d > 0.  The comparisons hold    *)
(* between a rational and an infinity as well.                             *)

R(n) == <<n, 1>>
RAdd(a, b) == <<a[1] * b[2] + b[1] * a[2], a[2] * b[2]>>
RMul(a, b) == <<a[1] * b[1], a[2] * b[2]>>
RDiv(a, b) == <<a[1] * b[2], a[2] * b[1]>>
RSub(a, b) == <<a[1] * b[2] - b[1] * a[2], a[2] * b[2]>>
RAbs(a) == <<IF a[1] < 0 THEN -a[1] ELSE a[1], a[2]>>
RLt(a, b) == a[1] * b[2] < b[1] * a[2]
RLe(a, b) == a[1] * b[2] <= b[1] * a[2]
REq(a, b) == a[1] * b[2] = b[1] * a[2]

(* All sequences over S of length at most n. *)
SeqsUpTo(S, n) == UNION {[1..k -> S] : k \in 0..n}

-----------------------------------------------------------------------------
(* readoutput.py: unit expressions.                                        *)

(* The unit dictionary cmctoolkit.make_unitdict reads from initial.conv.sh:
   a map from unit names to factors. *)
unitdict ==
    (<<"cm">> :> R(2)) @@ (<<"nb_s">> :> R(3)) @@ (<<"myr">> :> R(500))
        @@ (<<"msun">> :> R(4)) @@ (<<"pc">> :> R(5))

(* str.split(): the maximal runs of symbols other than whitespace. *)
RECURSIVE split_ws(_, _, _)
split_ws(s, i, cur) ==
    IF i > Len(s)
    THEN IF cur = <<>> THEN <<>> ELSE <<cur>>
    ELSE IF s[i] = " "
         THEN (IF cur = <<>> THEN <<>> ELSE <<cur>>) \o split_ws(s, i + 1, <<>>)
         ELSE split_ws(s, i + 1, Append(cur, s[i]))

(* The loop of _parse_units_string over the tokens from the i-th on, with
   the factor and the pending operator so far ("none" is Python's None). *)
RECURSIVE parse_units_fold(_, _, _, _)
parse_units_fold(toks, i, factor, op) ==
    IF i > Len(toks)
    THEN [status |-> "ok", factor |-> factor]
    ELSE LET u == toks[i] IN
         IF u = <<"*">> THEN parse_units_fold(toks, i + 1, factor, "*")
         ELSE IF u = <<"/">> THEN parse_units_fold(toks, i + 1, factor, "/")
         ELSE IF op = "*"
              THEN IF u \in DOMAIN unitdict
                   THEN parse_units_fold(toks, i + 1, RMul(factor, unitdict[u]), "none")
                   ELSE [status |-> "KeyError", factor |-> factor]
         ELSE IF op = "/"
              THEN IF u \in DOMAIN unitdict
                   THEN parse_units_fold(toks, i + 1, RDiv(factor, unitdict[u]), "none")
                   ELSE [status |-> "KeyError", factor |-> factor]
         ELSE [status |-> "Exception", factor |-> factor]

parse_units_string(string) == parse_units_fold(split_ws(string, 1, <<>>), 1, R(1), "*")

-----------------------------------------------------------------------------
(* readoutput.py: the _dat_file object.                                    *)

(* The columns of a dyn.dat file, in file order, as _get_column_names
   returns them. *)
FileCols == <<"tcount", "t", "M", "rc_spitzer", "r_h">>

(* A dat file whose i-th row has tcount i - 1 and the raw time ts[i] (in
   code units). *)
DatRows(ts) ==
    [i \in DOMAIN ts |->
        [tcount |-> i - 1, t |-> ts[i], M |-> 9 - i, rc_spitzer |-> 1, r_h |-> 2]]

(* The dat files on disk: without rows, with times up to 5000 Myr, with
   times from 0 to 13500 Myr. *)
FileEmpty == DatRows(<<>>)
FileEarly == DatRows(<<0, 10>>)
FileLate == DatRows(<<0, 20, 21, 22, 23, 24, 25, 26, 27>>)
DatFiles == {FileEmpty, FileEarly, FileLate}

Range(s) == {s[i] : i \in 1..Len(s)}

(* pd.read_csv(path, names=..., usecols=...): the columns asked for, every
   column when usecols is not given ("none"); a column the file has not is a
   ValueError. *)
read_csv(file, usecols) ==
    LET cols == IF usecols = "none" THEN Range(FileCols) ELSE Range(usecols) IN
    IF ~(cols \subseteq Range(FileCols))
    THEN [status |-> "ValueError"]
    ELSE [status |-> "ok",
          df |-> [c \in cols |-> [i \in 1..Len(file) |-> R(file[i][c])]]]

(* convert_one without the test of units_converted: the column is multiplied
   at every request. *)
convert_one_unchecked(obj, n, u) ==
    LET p == parse_units_string(u) IN
    IF p.status # "ok"
    THEN [status |-> p.status, obj |-> obj]
    ELSE [status |-> "ok",
          obj |-> [df |-> [obj.df EXCEPT ![n] =
                              [i \in DOMAIN @ |-> RMul(@[i], p.factor)]],
                   units_converted |-> [obj.units_converted EXCEPT ![n] = TRUE],
                   nmul |-> [obj.nmul EXCEPT ![n] = @ + 1],
                   nskip |-> obj.nskip]]

(* One entry (n, u) of names_units, for a column n of the table: the body of
   the loop of convert_units.  nmul counts the multiplications of a column
   and nskip the requests skipped because the column was converted. *)
convert_one(obj, n, u) ==
    IF ~obj.units_converted[n]
    THEN LET p == parse_units_string(u) IN
         IF p.status # "ok"
         THEN [status |-> p.status, obj |-> obj]
         ELSE [status |-> "ok",
               obj |-> [df |-> [obj.df EXCEPT ![n] =
                                   [i \in DOMAIN @ |-> RMul(@[i], p.factor)]],
                        units_converted |-> [obj.units_converted EXCEPT ![n] = TRUE],
                        nmul |-> [obj.nmul EXCEPT ![n] = @ + 1],
                        nskip |-> obj.nskip]]
    ELSE [status |-> "ok", obj |-> [obj EXCEPT !.nskip[n] = @ + 1]]

(* convert_units(names_units, missing_ok): names_units is the sequence of the
   dict's items, <<name, unit string>>; an exception ends the loop and leaves
   the columns converted before it converted. *)
RECURSIVE convert_units(_, _, _, _)
convert_units(obj, names_units, i, missing_ok) ==
    IF i > Len(names_units)
    THEN [status |-> "ok", obj |-> obj]
    ELSE LET n == names_units[i][1]
             u == names_units[i][2]
         IN IF n \in DOMAIN obj.df
            THEN LET r == convert_one(obj, n, u) IN
                 IF r.status # "ok" THEN r
                 ELSE convert_units(r.obj, names_units, i + 1, missing_ok)
            ELSE IF ~missing_ok
                 THEN [status |-> "Exception", obj |-> obj]
                 ELSE convert_units(obj, names_units, i + 1, missing_ok)

(* _dat_file.__init__: read the table, mark every column unconverted, then
   convert the units asked for on load. *)
dat_file_init(file, usecols, convert) ==
    LET t == read_csv(file, usecols) IN
    IF t.status # "ok"
    THEN [status |-> t.status]
    ELSE convert_units([df |-> t.df,
                        units_converted |-> [c \in DOMAIN t.df |-> FALSE],
                        nmul |-> [c \in DOMAIN t.df |-> 0],
                        nskip |-> [c \in DOMAIN t.df |-> 0]],
                       convert, 1, FALSE)

-----------------------------------------------------------------------------
(* readcatalog.py: model names.                                            *)

IsPrefixAt(s, i, old) ==
    /\ i + Len(old) - 1 <= Len(s)
    /\ \A k \in 1..Len(old) : s[i + k - 1] = old[k]

(* str.replace(old, new), old not empty: the occurrences of old, left to
   right and not overlapping, replaced by new. *)
RECURSIVE str_replace(_, _, _, _)
str_replace(s, i, old, new) ==
    IF i > Len(s) THEN <<>>
    ELSE IF IsPrefixAt(s, i, old)
         THEN new \o str_replace(s, i + Len(old), old, new)
         ELSE <<s[i]>> \o str_replace(s, i + 1, old, new)

(* str.split(sep) for a one-symbol sep: the pieces between the separators,
   empty pieces kept; the empty string gives one empty piece. *)
RECURSIVE str_split(_, _, _, _)
str_split(s, i, sep, cur) ==
    IF i > Len(s) THEN <<cur>>
    ELSE IF s[i] = sep
         THEN <<cur>> \o str_split(s, i + 1, sep, <<>>)
         ELSE str_split(s, i + 1, sep, Append(cur, s[i]))

DigitVal == ("0" :> 0) @@ ("1" :> 1) @@ ("2" :> 2) @@ ("8" :> 8)

RECURSIVE decimal(_, _, _)
decimal(s, i, acc) ==
    IF i > Len(s) THEN acc ELSE decimal(s, i + 1, 10 * acc + DigitVal[s[i]])

(* float(s): the value of a string of digits, a ValueError for the empty
   string and for a string with any other symbol. *)
float(s) ==
    IF s # <<>> /\ \A i \in 1..Len(s) : s[i] \in DOMAIN DigitVal
    THEN [status |-> "ok", value |-> decimal(s, 1, 0)]
    ELSE [status |-> "ValueError"]

ParamKeys == <<"N", "rv", "rg", "Z">>

(* The loop of _parse_model_name over the keys of dict(zip(keys, tokens)),
   from the i-th on: zip stops at the shorter of the two. *)
RECURSIVE parse_model_fold(_, _, _)
parse_model_fold(toks, i, params) ==
    IF i > Len(ParamKeys) \/ i > Len(toks)
    THEN [status |-> "ok", params |-> params]
    ELSE LET k == ParamKeys[i]
             v == float(str_replace(toks[i], 1, <<k>>, <<>>))
         IN IF v.status # "ok"
            THEN [status |-> "ValueError", params |-> params]
            ELSE parse_model_fold(toks, i + 1, params @@ (k :> v.value))

(* _parse_model_name(model_name, cat_type). *)
parse_model_name(model_name, cat_type) ==
    IF cat_type = "Kremer+20"
    THEN parse_model_fold(str_split(model_name, 1, "_", <<>>), 1, <<>>)
    ELSE [status |-> "Exception", params |-> <<>>]

-----------------------------------------------------------------------------
(* readcatalog.py: the snapshots of one model.                             *)

(* list.append(x) unless x is in the list. *)
append_if_missing(list, x) == IF x \in Range(list) THEN list ELSE Append(list, x)

(* Boolean indexing df[mask]: the positions from i on, in order, where the
   mask is true. *)
RECURSIVE filter_indices(_, _)
filter_indices(mask, i) ==
    IF i > Len(mask) THEN <<>>
    ELSE (IF mask[i] THEN <<i>> ELSE <<>>) \o filter_indices(mask, i + 1)

(* min and max of a non-empty array of rationals. *)
RMin(a) == CHOOSE x \in Range(a) : \A y \in Range(a) : RLe(x, y)
RMax(a) == CHOOSE x \in Range(a) : \A y \in Range(a) : RLe(y, x)

(* argmin of d[1..n], taking the last of several minima. *)
argmin_last(d, n) ==
    CHOOSE i \in 1..n : \A j \in 1..n : RLt(d[i], d[j]) \/ (REq(d[i], d[j]) /\ j <= i)

(* numpy argmin of d[1..n], n > 0: the first index of a minimum. *)
argmin(d, n) ==
    CHOOSE i \in 1..n : \A j \in 1..n : RLt(d[i], d[j]) \/ (REq(d[i], d[j]) /\ i <= j)

(* _select_dat_data(fname, dat_file, timesteps, dat_kwargs), dat_file a
   dyn.dat file whose rows are file.  The result holds the rows returned,
   each with its (fname, tcount) index and its columns, and the usecols list
   as the call leaves it. *)
select_dat_data(fname, file, timesteps, dat_kwargs) ==
    LET usecols == append_if_missing(dat_kwargs.usecols, "t")
        loaded == dat_file_init(file, usecols, dat_kwargs.convert_units)
    IN
    IF loaded.status # "ok"
    THEN [status |-> loaded.status, rows |-> <<>>, usecols |-> usecols]
    ELSE
    LET conv == convert_units(loaded.obj, <<(<<"t", <<"myr">>>>)>>, 1, FALSE) IN
    IF conv.status # "ok"
    THEN [status |-> conv.status, rows |-> <<>>, usecols |-> usecols]
    ELSE IF "tcount" \notin DOMAIN conv.obj.df
    THEN [status |-> "KeyError", rows |-> <<>>, usecols |-> usecols]
    ELSE
    LET df == conv.obj.df
        cols == DOMAIN df \ {"tcount"}
        row(i) == [fname |-> fname, tcount |-> df["tcount"][i],
                   data |-> [c \in cols |-> df[c][i]]]
        lo == RMin(timesteps)
        hi == RMax(timesteps)
        mask == [i \in 1..Len(file) |-> RLe(lo, df["t"][i]) /\ RLe(df["t"][i], hi)]
        kept == filter_indices(mask, 1)
    IN
    IF kept = <<>>
    THEN [status |-> "ok", rows |-> <<>>, usecols |-> usecols]
    ELSE
    LET dist(k) == [i \in 1..Len(kept) |-> RAbs(RSub(df["t"][kept[i]], timesteps[k]))]
        time_indices == [k \in 1..Len(timesteps) |-> argmin(dist(k), Len(kept))]
    IN [status |-> "ok",
        rows |-> [k \in 1..Len(timesteps) |-> row(kept[time_indices[k]])],
        usecols |-> usecols]

-----------------------------------------------------------------------------
(* readcatalog.py: the catalog.                                            *)

(* A missing value of a table (NaN). *)
NaN == <<0, 0>>

(* str.endswith(suffix). *)
endswith(s, suffix) ==
    /\ Len(suffix) <= Len(s)
    /\ \A k \in 1..Len(suffix) : s[Len(s) - Len(suffix) + k] = suffix[k]

(* CMCCatalog.__init__: a table with one row per entry of the directory
   whose name ends with extension, indexed by fname, without columns.  A row
   holds its index (fname, tcount; tcount is NaN until snapshots are joined),
   its parameter columns and its dat columns.  The extension is kept as
   history; the object does not store it. *)
catalog_init(fnames, extension, mp_nprocs) ==
    LET kept == filter_indices([i \in 1..Len(fnames) |-> endswith(fnames[i], extension)], 1)
    IN [mp_nprocs |-> mp_nprocs,
        extension |-> extension,
        df |-> [rows |-> [i \in 1..Len(kept) |->
                             [fname |-> fnames[kept[i]], tcount |-> NaN,
                              params |-> <<>>, data |-> <<>>]],
                pcols |-> {}, dcols |-> {}, joined |-> FALSE]]

(* The replacements of parse_names applied to a name, in order. *)
RECURSIVE replace_all(_, _, _)
replace_all(name, replace, i) ==
    IF i > Len(replace) THEN name
    ELSE replace_all(str_replace(name, 1, replace[i][1], replace[i][2]), replace, i + 1)

(* DataFrame.join on the index: every left row, from the i-th on, with
   every right row of the same (fname, tcount), in the order of the left
   rows, as pairs <<left position, right position>>.  Here the right table
   has the index of the left one, so no left row goes without a right row. *)
SameIndex(a, b) == a.fname = b.fname /\ a.tcount = b.tcount

RECURSIVE join_on_index(_, _, _)
join_on_index(left, right, i) ==
    IF i > Len(left) THEN <<>>
    ELSE LET js == filter_indices([j \in 1..Len(right) |-> SameIndex(left[i], right[j])], 1)
         IN [m \in 1..Len(js) |-> <<i, js[m]>>] \o join_on_index(left, right, i + 1)

(* parse_names(replace, cat_type): the parameters of every row's name, as a
   table on the index of df, joined to df.  A dict without some key leaves
   NaN in that column; a column df has already makes the join a ValueError. *)
parse_names(df, replace, cat_type) ==
    LET parsed == [i \in 1..Len(df.rows) |->
                      parse_model_name(replace_all(df.rows[i].fname, replace, 1), cat_type)]
        bad == {i \in 1..Len(df.rows) : parsed[i].status # "ok"}
        keys == UNION {DOMAIN parsed[i].params : i \in 1..Len(df.rows)}
        params == [i \in 1..Len(df.rows) |->
                      [fname |-> df.rows[i].fname, tcount |-> df.rows[i].tcount,
                       params |-> [k \in keys |->
                                      IF k \in DOMAIN parsed[i].params
                                      THEN R(parsed[i].params[k]) ELSE NaN]]]
        pairs == join_on_index(df.rows, params, 1)
        joined == [m \in 1..Len(pairs) |->
                      [df.rows[pairs[m][1]] EXCEPT
                          !.params = @ @@ params[pairs[m][2]].params]]
    IN
    IF bad # {}
    THEN [status |-> parsed[CHOOSE i \in bad : \A j \in bad : i <= j].status, df |-> df]
    ELSE IF keys \cap (df.pcols \cup df.dcols) # {}
    THEN [status |-> "ValueError", df |-> df]
    ELSE [status |-> "ok",
          df |-> [df EXCEPT !.rows = joined, !.pcols = df.pcols \cup keys]]

(* np.linspace(tmin, tmax, num): num evenly spaced times, tmin alone when
   num is 1. *)
linspace(tmin, tmax, num) ==
    [i \in 1..num |->
        IF num = 1 THEN R(tmin)
        ELSE <<tmin * (num - 1) + (i - 1) * (tmax - tmin), num - 1>>]

(* pd.concat of the tables of rows in rs. *)
RECURSIVE concat(_, _)
concat(rs, i) == IF i > Len(rs) THEN <<>> ELSE rs[i] \o concat(rs, i + 1)

(* The end of add_dat_timesteps (lines 141 to 148): the snapshot rows of all
   models concatenated, one row of df for each of them under its (fname,
   tcount) index, and the two joined on that index.  Without any model there
   is nothing to concatenate: a ValueError. *)
join_dat_data(df, dat_rows, dat_cols) ==
    IF Len(dat_rows) = 0
    THEN [status |-> "ValueError", df |-> df]
    ELSE
    LET dat_data == concat(dat_rows, 1)
        model_row(k) == CHOOSE r \in Range(df.rows) : r.fname = k
        replicated == [i \in 1..Len(dat_data) |->
                          [fname |-> dat_data[i].fname, tcount |-> dat_data[i].tcount,
                           params |-> model_row(dat_data[i].fname).params,
                           data |-> <<>>]]
        pairs == join_on_index(replicated, dat_data, 1)
    IN [status |-> "ok",
        df |-> [rows |-> [m \in 1..Len(pairs) |->
                             [replicated[pairs[m][1]] EXCEPT
                                 !.data = dat_data[pairs[m][2]].data]],
                pcols |-> df.pcols,
                dcols |-> dat_cols,
                joined |-> TRUE]]

(* The calls match_to_cmc_models makes on the catalog, in order (lines 56
   to 68). *)
DriverCallsParseFirst == <<"init", "parse_names", "add_dat_timesteps">>
DriverCalls == <<"init", "add_dat_timesteps", "parse_names">>

(* The arguments match_to_cmc_models gives them. *)
DriverExtension == <<".tar.gz">>
DriverNprocs == 128
DriverGrid == [tmin |-> 10000, tmax |-> 13500, tnum |-> 10]
DriverUsecols == <<"t", "M", "rc_spitzer", "r_h">>
DriverConvert ==
    << <<"t", <<"myr">> >>, <<"M", <<"msun">> >>,
       <<"rc_spitzer", <<"pc">> >>, <<"r_h", <<"pc">> >> >>
DriverReplace == << <<(<<"_", "v2">>), <<>> >>, <<(<<".tar.gz">>), <<>> >> >>

(* The default replace of parse_names. *)
DefaultReplace == << <<(<<"_", "v2">>), <<>> >> >>

-----------------------------------------------------------------------------
(* aggregate.py: matching observed clusters to snapshots.                  *)

(* np.inf and -np.inf. *)
PosInf == <<1, 0>>
NegInf == <<-1, 0>>

(* np.sort(column.unique()): the distinct values in S, ascending. *)
RECURSIVE sort_unique(_)
sort_unique(S) ==
    IF S = {} THEN <<>>
    ELSE LET m == CHOOSE x \in S : \A y \in S : RLe(x, y)
         IN <<m>> \o sort_unique(S \ {m})

(* The edges of the bin of the i-th value of vals (the code counts from 0,
   the model from 1), hi being the upper edge the pass before left: lines 87
   to 95 for the radius and lines 98 to 106 for the metallicity.  For the
   first value the code reads the value after it, an IndexError when there
   is none. *)
bin_bounds(vals, i, hi) ==
    IF i = 1
    THEN IF Len(vals) < 2
         THEN [status |-> "IndexError", lo |-> NegInf, hi |-> hi]
         ELSE [status |-> "ok", lo |-> NegInf,
               hi |-> RDiv(RAdd(vals[1], vals[2]), R(2))]
    ELSE IF i = Len(vals)
    THEN [status |-> "ok", lo |-> hi, hi |-> PosInf]
    ELSE [status |-> "ok", lo |-> hi,
          hi |-> RDiv(RAdd(vals[i], vals[i + 1]), R(2))]

(* The mask of lines 109 to 114 with the upper edges closed. *)
in_bin_closed(c, rglo, rghi, metlo, methi) ==
    /\ RLe(rglo, c.R_GC) /\ RLe(c.R_GC, rghi)
    /\ RLe(metlo, c.FeH) /\ RLe(c.FeH, methi)

(* The mask of lines 109 to 114: cluster c is in the bin of these edges. *)
in_bin(c, rglo, rghi, metlo, methi) ==
    /\ RLe(rglo, c.R_GC) /\ RLt(c.R_GC, rghi)
    /\ RLe(metlo, c.FeH) /\ RLt(c.FeH, methi)

(* The mask of lines 115 to 117: snapshot m has the bin's generating values. *)
is_model_of(m, rg, met) == REq(m.rg, rg) /\ REq(m.FeH, met)

params_compare == <<"logM", "rcrh">>

(* The distance of cluster c to snapshot m over logM alone. *)
distance_logM(c, m, i) == RMul(RSub(c.logM, m.logM), RSub(c.logM, m.logM))

(* An entry of the distance matrix (lines 122 to 131): the squared
   differences of c and m, summed over the parameters from the i-th on. *)
RECURSIVE distance(_, _, _)
distance(c, m, i) ==
    IF i > Len(params_compare) THEN R(0)
    ELSE LET p == params_compare[i]
         IN RAdd(RMul(RSub(c[p], m[p]), RSub(c[p], m[p])), distance(c, m, i + 1))

(* A row of DataFrame.idxmin(axis=1), d[1..n] being the row, n > 0: the
   first column where the row has its minimum. *)
idxmin(d, n) ==
    CHOOSE i \in 1..n : \A j \in 1..n : RLt(d[i], d[j]) \/ (REq(d[i], d[j]) /\ i <= j)

(* Lines 108 to 145, one pass of the inner loop after its edges are set:
   the clusters and the snapshots of the bin, the distance matrix, and the
   clusters with the key and the time of their nearest snapshot.  idxmin
   raises on a matrix with rows and no column, and the pass is left by
   "continue"; it returns nothing to assign on a matrix without rows. *)
match_bin(clusters, models, rg, met, rglo, rghi, metlo, methi) ==
    LET cs == filter_indices([i \in 1..Len(clusters) |->
                                 in_bin(clusters[i], rglo, rghi, metlo, methi)], 1)
        ms == filter_indices([j \in 1..Len(models) |->
                                 is_model_of(models[j], rg, met)], 1)
        distances == [k \in 1..Len(cs) |-> [l \in 1..Len(ms) |->
                         distance(clusters[cs[k]], models[ms[l]], 1)]]
        matching == [k \in 1..Len(cs) |-> models[ms[idxmin(distances[k], Len(ms))]]]
    IN
    IF Len(ms) = 0
    THEN [status |-> IF Len(cs) = 0 THEN "empty" ELSE "ValueError", rows |-> <<>>]
    ELSE [status |-> "ok",
          rows |-> [k \in 1..Len(cs) |->
                       [Cluster |-> clusters[cs[k]].Cluster,
                        R_GC |-> clusters[cs[k]].R_GC,
                        FeH |-> clusters[cs[k]].FeH,
                        logM |-> clusters[cs[k]].logM,
                        rcrh |-> clusters[cs[k]].rcrh,
                        fname |-> matching[k].fname,
                        tcount |-> matching[k].tcount,
                        t |-> matching[k].t]]]

(* The locals of the loops before line 81. *)
NoLoop ==
    [rgs_cmc |-> <<>>, mets_cmc |-> <<>>, rgi |-> 0, mi |-> 0,
     rglo |-> NaN, rghi |-> NaN, metlo |-> NaN, methi |-> NaN,
     status |-> "none", bins |-> <<>>]

-----------------------------------------------------------------------------
(* Bounds of the checks.                                                   *)

MaxStrLen == 7      \* symbols of a unit expression given to the parser
MaxCalls == 2       \* convert_units calls on one table after its load
MaxNameTokens == 5  \* "_"-separated tokens of a model name given to the parser
MaxDatRows == 4     \* rows of the dat file given to _select_dat_data
MaxTargets == 2     \* target times given to _select_dat_data
MaxEntries == 2     \* entries of the catalog directory
MaxApiCalls == 2    \* parse_names and add_dat_timesteps calls of a free user
MaxModelRows == 3   \* snapshots in the table given to the matching
MaxClusters == 2    \* observed clusters in the table given to the matching
MaxAxisVals == 3    \* distinct rg values, and [Fe/H] values, of a grid of models

(* The symbols unit expressions are written with. *)
UnitSymbols == {"*", "/", "cm", "nb_s", " "}

(* Unit expressions given to convert_units: well formed, with a doubled
   operator, with two names in a row, with an unknown name. *)
UnitStrings ==
    { <<"myr">>, <<"cm", " ", "/", " ", "nb_s">>,
      <<"cm", " ", "*", " ", "/", " ", "nb_s">>, <<"cm", " ", "nb_s">>,
      <<"furlong">> }

(* Column names a request may name; "Dt" is not a column of the file. *)
ReqNames == {"t", "M", "Dt"}

Injective(q) == \A i, j \in DOMAIN q : q[i] = q[j] => i = j

(* names_units dicts: distinct keys, in insertion order. *)
Requests ==
    { q \in SeqsUpTo(ReqNames \X UnitStrings, Cardinality(ReqNames)) :
        Injective([i \in DOMAIN q |-> q[i][1]]) }

UsecolsChoices == {"none", <<"t">>, <<"t", "M">>, <<"M", "tcount">>, <<"t", "Dt">>}

NoDat == [df |-> <<>>, units_converted |-> <<>>, nmul |-> <<>>, nskip |-> <<>>]

IdleParse == ustring = <<>> /\ uresult = [status |-> "none"]
IdleUnits == dat = NoDat /\ ncalls = 0
IdleName == mname = <<>> /\ mresult = [status |-> "none"]
IdleSelect == sel_file = <<>> /\ sel_ts = <<>> /\ sel_out = [status |-> "none"]

NoCat == [mp_nprocs |-> 0, extension |-> <<>>,
          df |-> [rows |-> <<>>, pcols |-> {}, dcols |-> {}, joined |-> FALSE]]
NoTask == [timesteps |-> <<>>, convert_units |-> <<>>, usecols |-> <<>>]
IdleCatalog ==
    /\ mode = "none" /\ listing = <<>> /\ cat = NoCat /\ calls = <<>>
    /\ kw_usecols = <<>> /\ kw_usecols0 = <<>> /\ task = NoTask /\ results = <<>>
IdleMatch ==
    /\ gc_models = <<>> /\ gc_clusters = <<>> /\ loop = NoLoop
    /\ dfs = <<>> /\ gc_df = <<>>

-----------------------------------------------------------------------------
(* Specification of the unit expression parser alone: any string, parsed.  *)

InitParse ==
    /\ pc = "parse_call"
    /\ ustring \in SeqsUpTo(UnitSymbols, MaxStrLen)
    /\ uresult = [status |-> "none"]
    /\ IdleUnits
    /\ IdleName
    /\ IdleSelect
    /\ IdleCatalog
    /\ IdleMatch

ParseUnitsString ==
    /\ pc = "parse_call"
    /\ uresult' = parse_units_string(ustring)
    /\ pc' = "parse_done"
    /\ UNCHANGED <<ustring, varsUnits, varsName, varsSelect, varsCatalog, varsMatch>>

NextParse == ParseUnitsString

SpecParse == InitParse /\ [][NextParse]_vars

IsOperator(u) == u = <<"*">> \/ u = <<"/">>

(* Tokens that alternate unit names and operators: no two operators in a
   row and no two names in a row. *)
Alternates(toks) ==
    \A i \in 1..(Len(toks) - 1) : IsOperator(toks[i]) # IsOperator(toks[i + 1])

(* C7: _parse_units_string returns a factor only for token sequences that
   alternate unit names and operators; every other sequence is an error. *)
C7_MalformedRejected ==
    (pc = "parse_done" /\ uresult.status = "ok") =>
        Alternates(split_ws(ustring, 1, <<>>))

(* The part of C7 the code keeps: a name that follows a name is an error. *)
C7_NameAfterNameRejected ==
    (pc = "parse_done" /\ uresult.status = "ok") =>
        LET toks == split_ws(ustring, 1, <<>>) IN
        \A i \in 1..(Len(toks) - 1) : IsOperator(toks[i]) \/ IsOperator(toks[i + 1])

(* "cm * / nb_s" parsed to a factor. *)
C7_DoubledOperatorAccepted ==
    /\ pc = "parse_done"
    /\ ustring = <<"cm", " ", "*", " ", "/", " ", "nb_s">>
    /\ uresult.status = "ok"

-----------------------------------------------------------------------------
(* Specification of one _dat_file object: its load, then convert_units
   calls by its user.  An exception in the constructor leaves no object. *)

InitUnits ==
    /\ pc = "dat_new"
    /\ IdleUnits
    /\ IdleParse
    /\ IdleName
    /\ IdleSelect
    /\ IdleCatalog
    /\ IdleMatch

DatFileInit ==
    /\ pc = "dat_new"
    /\ \E file \in DatFiles, usecols \in UsecolsChoices, convert \in Requests :
          LET r == dat_file_init(file, usecols, convert) IN
          IF r.status = "ok"
          THEN /\ dat' = r.obj
               /\ pc' = "dat_ready"
          ELSE /\ pc' = "dat_failed"
               /\ UNCHANGED dat
    /\ UNCHANGED <<ncalls, varsParse, varsName, varsSelect, varsCatalog, varsMatch>>

ConvertUnits ==
    /\ pc = "dat_ready"
    /\ ncalls < MaxCalls
    /\ \E names_units \in Requests, missing_ok \in BOOLEAN :
          dat' = convert_units(dat, names_units, 1, missing_ok).obj
    /\ ncalls' = ncalls + 1
    /\ UNCHANGED <<pc, varsParse, varsName, varsSelect, varsCatalog, varsMatch>>

NextUnits == DatFileInit \/ ConvertUnits

SpecUnits == InitUnits /\ [][NextUnits]_vars

SameTable(a, b) == a.df = b.df /\ a.units_converted = b.units_converted

(* C5: on a loaded table, after any sequence of convert_units calls (the
   one of the constructor included), every column has been multiplied at
   most once, units_converted is true exactly for the multiplied columns, and
   making any request a second time leaves the table as the first left it. *)
C5_ConvertedAtMostOnce ==
    pc = "dat_ready" =>
        /\ \A c \in DOMAIN dat.df :
              /\ dat.nmul[c] <= 1
              /\ dat.units_converted[c] <=> dat.nmul[c] = 1
        /\ \A q \in Requests, missing_ok \in BOOLEAN :
              LET once == convert_units(dat, q, 1, missing_ok).obj IN
              SameTable(convert_units(once, q, 1, missing_ok).obj, once)

(* A column that was multiplied once although a later call, which went
   through, asked for it again. *)
C5_Witness ==
    /\ pc = "dat_ready"
    /\ ncalls = MaxCalls
    /\ \E c \in DOMAIN dat.df :
          dat.nmul[c] = 1 /\ dat.nskip[c] >= 1 /\ dat.df[c] # <<>>

-----------------------------------------------------------------------------
(* Specification of the model name parser alone: any name, parsed.         *)

(* Tokens of model names: the four prefixed ones, a number without prefix,
   a version tag, the empty one. *)
NameTokens ==
    { <<"N", "8">>, <<"rv", "1">>, <<"rg", "2">>, <<"Z", "0", "2">>,
      <<"1">>, <<"v2">>, <<>> }

RECURSIVE join(_, _)
join(toks, sep) ==
    IF toks = <<>> THEN <<>>
    ELSE IF Len(toks) = 1 THEN toks[1]
    ELSE toks[1] \o <<sep>> \o join(Tail(toks), sep)

ModelNames == {join(toks, "_") : toks \in SeqsUpTo(NameTokens, MaxNameTokens)}

InitName ==
    /\ pc = "name_call"
    /\ mname \in ModelNames
    /\ mresult = [status |-> "none"]
    /\ IdleParse
    /\ IdleUnits
    /\ IdleSelect
    /\ IdleCatalog
    /\ IdleMatch

ParseModelName ==
    /\ pc = "name_call"
    /\ mresult' = parse_model_name(mname, "Kremer+20")
    /\ pc' = "name_done"
    /\ UNCHANGED <<mname, varsParse, varsUnits, varsSelect, varsCatalog, varsMatch>>

NextName == ParseModelName

SpecName == InitName /\ [][NextName]_vars

(* A token that is the prefix k and then a number. *)
Prefixed(tok, k) ==
    /\ Len(tok) >= 2
    /\ tok[1] = k
    /\ float(Tail(tok)).status = "ok"

(* Exactly four tokens, with the prefixes N, rv, rg, Z in that order. *)
FourPrefixedTokens(name) ==
    LET toks == str_split(name, 1, "_", <<>>) IN
    /\ Len(toks) = Len(ParamKeys)
    /\ \A i \in 1..Len(ParamKeys) : Prefixed(toks[i], ParamKeys[i])

(* C6: under "Kremer+20", _parse_model_name returns a record only for a name
   of exactly four tokens with the prefixes N, rv, rg, Z in order, and the
   record has exactly these four keys; it fails for every other name. *)
C6_OnlyFourTokensParse ==
    (pc = "name_done" /\ mresult.status = "ok") =>
        /\ FourPrefixedTokens(mname)
        /\ DOMAIN mresult.params = Range(ParamKeys)

(* The part of C6 the code keeps: a name of four prefixed tokens parses to
   the four keys. *)
C6_FourTokensParse ==
    (pc = "name_done" /\ FourPrefixedTokens(mname)) =>
        /\ mresult.status = "ok"
        /\ DOMAIN mresult.params = Range(ParamKeys)

(* "N8_rv1_rg2" parsed to a record of three keys. *)
C6_ThreeTokensAccepted ==
    /\ pc = "name_done"
    /\ mname = <<"N", "8", "_", "rv", "1", "_", "rg", "2">>
    /\ mresult.status = "ok"
    /\ DOMAIN mresult.params = {"N", "rv", "rg"}

-----------------------------------------------------------------------------
(* Specification of _select_dat_data alone: any dat file and any non-empty
   array of target times, selected from.                                   *)

(* Raw times of dat rows (code units; unitdict's myr makes them 0, 5000,
   10000 and 13000 Myr) and target times in Myr. *)
RawTimes == {0, 10, 20, 26}
TargetTimes == {5000, 9000, 11000, 13000}

SelFiles == { DatRows(ts) : ts \in SeqsUpTo(RawTimes, MaxDatRows) }

SelTargets == { [i \in DOMAIN ts |-> R(ts[i])] : ts \in SeqsUpTo(TargetTimes, MaxTargets) \ {<<>>} }

(* Load options: t asked for or added by the call, converted on load or by
   the call. *)
SelKwargs ==
    { [usecols |-> <<"t", "tcount">>, convert_units |-> <<(<<"t", <<"myr">>>>)>>],
      [usecols |-> <<"tcount", "M">>, convert_units |-> <<>>] }

InitSelect ==
    /\ pc = "select_call"
    /\ sel_file \in SelFiles
    /\ sel_ts \in SelTargets
    /\ sel_out = [status |-> "none"]
    /\ IdleParse
    /\ IdleUnits
    /\ IdleName
    /\ IdleCatalog
    /\ IdleMatch

SelectDatData ==
    /\ pc = "select_call"
    /\ \E dat_kwargs \in SelKwargs :
          sel_out' = select_dat_data("m", sel_file, sel_ts, dat_kwargs)
    /\ pc' = "select_done"
    /\ UNCHANGED <<sel_file, sel_ts, varsParse, varsUnits, varsName, varsCatalog, varsMatch>>

NextSelect == SelectDatData

SpecSelect == InitSelect /\ [][NextSelect]_vars

(* The time of row j of sel_file in Myr. *)
MyrTime(j) == RMul(R(sel_file[j].t), unitdict[<<"myr">>])

(* Row j lies in the closed range of the targets. *)
InTargetRange(j) ==
    /\ \E x \in Range(sel_ts) : RLe(x, MyrTime(j))
    /\ \E x \in Range(sel_ts) : RLe(MyrTime(j), x)

TimeGap(j, k) == RAbs(RSub(MyrTime(j), sel_ts[k]))

(* Row j is the first in-range row nearest to target k. *)
NearestInRange(j, k) ==
    /\ InTargetRange(j)
    /\ \A i \in 1..Len(sel_file) :
          InTargetRange(i) =>
              \/ RLt(TimeGap(j, k), TimeGap(i, k))
              \/ (REq(TimeGap(j, k), TimeGap(i, k)) /\ j <= i)

(* C4: when some row of the model lies in [min(targets), max(targets)], the
   k-th returned row is the in-range row nearest in time to the k-th target,
   the first such row on ties; two targets may select the same row. *)
C4_NearestRowPerTarget ==
    (pc = "select_done" /\ \E j \in 1..Len(sel_file) : InTargetRange(j)) =>
        /\ sel_out.status = "ok"
        /\ Len(sel_out.rows) = Len(sel_ts)
        /\ \A k \in 1..Len(sel_ts) :
              \E j \in 1..Len(sel_file) :
                  /\ NearestInRange(j, k)
                  /\ sel_out.rows[k].tcount = R(sel_file[j].tcount)
                  /\ REq(sel_out.rows[k].data["t"], MyrTime(j))

(* Times 0, 5000, 10000, 13000 and targets 9000, 11000: the row at 10000 is
   returned twice. *)
C4_Witness ==
    /\ pc = "select_done"
    /\ [i \in DOMAIN sel_file |-> sel_file[i].t] = <<0, 10, 20, 26>>
    /\ sel_ts = <<R(9000), R(11000)>>
    /\ Len(sel_out.rows) = 2
    /\ sel_out.rows[1] = sel_out.rows[2]
    /\ sel_out.rows[1].tcount = R(2)

-----------------------------------------------------------------------------
(* Specification of a catalog: a directory, the constructor, then
   parse_names and add_dat_timesteps, called by match_to_cmc_models
   ("driver") or by a free user ("api").  _select_dat_data is one step per
   model: in index order on the caller's own objects when mp_nprocs is 1, in
   any order on pickled copies of the arguments in the worker pool.        *)

EntryA == <<"N", "8", "_", "rv", "1", "_", "rg", "2", "_", "Z", "0", "2", ".tar.gz">>
EntryB == <<"N", "8", "_", "v2", "_", "rv", "1", "_", "rg", "8", "_", "Z", "0", "2", ".tar.gz">>
EntryC == <<"N", "8", "_", "rv", "1", "_", "rg", "2", ".tar.gz">>
EntryD == <<"N", "8", "_", "rv", "1", "_", "rg", "8", "_", "Z", "0", "2">>
EntryE == <<"README">>

(* The entries a directory may hold, and the dyn.dat file of each. *)
DirPool == {EntryA, EntryB, EntryC, EntryD, EntryE}
DirFile(fname) ==
    IF fname \in {EntryA, EntryD} THEN FileLate
    ELSE IF fname = EntryB THEN FileEarly
    ELSE FileEmpty

Listings == { l \in SeqsUpTo(DirPool, MaxEntries) : Injective(l) }

(* What a free user passes. *)
ApiExtensions == {<<".tar.gz">>, <<"2">>}
ApiNprocs == {1, 2}
ApiGrids == {[tmin |-> 0, tmax |-> 14000, tnum |-> 3]}
ApiUsecols == {<<"M">>, <<"tcount", "t">>, <<"t", "Dt">>}
ApiConverts == {<<(<<"M", <<"msun">> >>)>>}
ApiParseArgs ==
    { [replace |-> DefaultReplace, cat_type |-> "Kremer+20"],
      [replace |-> DriverReplace, cat_type |-> "Kremer+20"],
      [replace |-> DefaultReplace, cat_type |-> "Weatherford+21"] }

InitCatalog ==
    /\ pc = "cat_new"
    /\ mode \in {"driver", "api"}
    /\ listing \in Listings
    /\ cat = NoCat /\ calls = <<>>
    /\ kw_usecols = <<>> /\ kw_usecols0 = <<>> /\ task = NoTask /\ results = <<>>
    /\ IdleParse
    /\ IdleUnits
    /\ IdleName
    /\ IdleSelect
    /\ IdleMatch

(* The caller may call method m now. *)
CanCall(m) ==
    /\ pc = "cat_ready"
    /\ IF mode = "driver"
       THEN Len(calls) < Len(DriverCalls) /\ DriverCalls[Len(calls) + 1] = m
       ELSE ncalls < MaxApiCalls

(* Where the caller stands after a call that returned (ok) or raised. *)
AfterCall(ok, done) ==
    IF mode = "api" THEN "cat_ready"
    ELSE IF ~ok THEN "driver_failed"
    ELSE IF Len(done) = Len(DriverCalls) THEN "driver_done"
    ELSE "cat_ready"

CatalogInit ==
    /\ pc = "cat_new"
    /\ \E extension \in (IF mode = "driver" THEN {DriverExtension} ELSE ApiExtensions),
          mp_nprocs \in (IF mode = "driver" THEN {DriverNprocs} ELSE ApiNprocs) :
          cat' = catalog_init(listing, extension, mp_nprocs)
    /\ calls' = <<"init">>
    /\ pc' = "cat_ready"
    /\ UNCHANGED <<mode, listing, kw_usecols, kw_usecols0, task, results,
                   ncalls, dat, varsParse, varsName, varsSelect, varsMatch>>

ParseNames ==
    /\ CanCall("parse_names")
    /\ \E a \in (IF mode = "driver"
                  THEN {[replace |-> DriverReplace, cat_type |-> "Kremer+20"]}
                  ELSE ApiParseArgs) :
          LET r == parse_names(cat.df, a.replace, a.cat_type) IN
          IF r.status = "ok"
          THEN /\ cat' = [cat EXCEPT !.df = r.df]
               /\ calls' = Append(calls, "parse_names")
               /\ pc' = AfterCall(TRUE, calls')
          ELSE /\ pc' = AfterCall(FALSE, calls)
               /\ UNCHANGED <<cat, calls>>
    /\ ncalls' = ncalls + 1
    /\ UNCHANGED <<mode, listing, kw_usecols, kw_usecols0, task, results,
                   dat, varsParse, varsName, varsSelect, varsMatch>>

(* add_dat_timesteps up to the map over the models (lines 106 to 116). *)
AddDatBegin ==
    /\ CanCall("add_dat_timesteps")
    /\ \E grid \in (IF mode = "driver" THEN {DriverGrid} ELSE ApiGrids),
          given \in (IF mode = "driver" THEN {DriverUsecols} ELSE ApiUsecols),
          convert \in (IF mode = "driver" THEN {DriverConvert} ELSE ApiConverts) :
          /\ kw_usecols0' = given
          /\ kw_usecols' = append_if_missing(given, "tcount")
          /\ IF "tcount" \in cat.df.dcols
             THEN /\ pc' = AfterCall(FALSE, calls)
                  /\ UNCHANGED <<task, results>>
             ELSE /\ task' = [timesteps |-> linspace(grid.tmin, grid.tmax, grid.tnum),
                              convert_units |-> convert,
                              usecols |-> kw_usecols']
                  /\ results' = [i \in 1..Len(cat.df.rows) |-> [status |-> "pending"]]
                  /\ pc' = "add_dat_map"
    /\ ncalls' = ncalls + 1
    /\ UNCHANGED <<mode, listing, cat, calls, dat, varsParse, varsName, varsSelect, varsMatch>>

(* One call of _select_dat_data, for the model of row i of the index.  On a
   table that has snapshots already the index holds (fname, tcount) pairs and
   building the path is a TypeError, after the t column was asked for. *)
SelectModel(i) ==
    /\ pc = "add_dat_map"
    /\ results[i].status = "pending"
    /\ cat.mp_nprocs = 1 => \A j \in 1..(i - 1) : results[j].status # "pending"
    /\ LET shared == cat.mp_nprocs = 1
           given == IF shared THEN kw_usecols ELSE task.usecols
           fname == cat.df.rows[i].fname
           r == IF cat.df.joined
                THEN [status |-> "TypeError", rows |-> <<>>,
                      usecols |-> append_if_missing(given, "t")]
                ELSE select_dat_data(fname, DirFile(fname), task.timesteps,
                                     [usecols |-> given,
                                      convert_units |-> task.convert_units])
       IN /\ kw_usecols' = IF shared THEN r.usecols ELSE kw_usecols
          /\ IF r.status = "ok"
             THEN /\ results' = [results EXCEPT ![i] = r]
                  /\ UNCHANGED <<pc, task>>
             ELSE /\ pc' = AfterCall(FALSE, calls)
                  /\ task' = NoTask
                  /\ results' = <<>>
    /\ UNCHANGED <<mode, listing, cat, calls, kw_usecols0, ncalls, dat,
                   varsParse, varsName, varsSelect, varsMatch>>

(* add_dat_timesteps from the gathered results on (lines 141 to 148). *)
AddDatFinish ==
    /\ pc = "add_dat_map"
    /\ \A i \in 1..Len(results) : results[i].status = "ok"
    /\ LET cols == IF Len(results) = 0 THEN {}
                   ELSE Range(results[1].usecols) \ {"tcount"}
           r == join_dat_data(cat.df, [i \in 1..Len(results) |-> results[i].rows], cols)
       IN IF r.status = "ok"
          THEN /\ cat' = [cat EXCEPT !.df = r.df]
               /\ calls' = Append(calls, "add_dat_timesteps")
               /\ pc' = AfterCall(TRUE, calls')
          ELSE /\ pc' = AfterCall(FALSE, calls)
               /\ UNCHANGED <<cat, calls>>
    /\ task' = NoTask
    /\ results' = <<>>
    /\ UNCHANGED <<mode, listing, kw_usecols, kw_usecols0, ncalls, dat,
                   varsParse, varsName, varsSelect, varsMatch>>

NextCatalog ==
    \/ CatalogInit
    \/ ParseNames
    \/ AddDatBegin
    \/ \E i \in 1..Len(results) : SelectModel(i)
    \/ AddDatFinish

SpecCatalog == InitCatalog /\ [][NextCatalog]_vars

(* The names of the directory that end with the catalog's extension. *)
Matching == {n \in Range(listing) : endswith(n, cat.extension)}

(* C8: a catalog just constructed has exactly the entries whose name ends
   with the extension as row keys, and has at least one: with no such entry
   the constructor fails. *)
C8_EmptyCatalogRejected ==
    calls = <<"init">> =>
        /\ {r.fname : r \in Range(cat.df.rows)} = Matching
        /\ cat.df.rows # <<>>

(* The part of C8 the code keeps: the row keys are the matching entries. *)
C8_KeepsMatchingEntries ==
    calls = <<"init">> =>
        /\ {r.fname : r \in Range(cat.df.rows)} = Matching
        /\ Len(cat.df.rows) = Cardinality(Matching)

(* A catalog constructed on a directory none of whose entries matches. *)
C8_EmptyCatalogConstructed ==
    /\ calls = <<"init">>
    /\ listing # <<>>
    /\ cat.df.rows = <<>>

RowsAlone(i) ==
    select_dat_data(cat.df.rows[i].fname, DirFile(cat.df.rows[i].fname),
                    task.timesteps,
                    [usecols |-> append_if_missing(kw_usecols0, "tcount"),
                     convert_units |-> task.convert_units]).rows

(* C10: the usecols list of the caller is as the caller passed it, during
   and after add_dat_timesteps, and the rows returned for a model are those
   of a call on its own, whatever calls came before it. *)
C10_NoSharedMutableState ==
    /\ kw_usecols = kw_usecols0
    /\ pc = "add_dat_map" =>
          \A i \in 1..Len(results) :
              results[i].status = "ok" => results[i].rows = RowsAlone(i)

(* The part of C10 the code keeps: the rows of a model do not depend on the
   order of the calls. *)
C10_RowsOrderIndependent ==
    pc = "add_dat_map" =>
        \A i \in 1..Len(results) :
            results[i].status = "ok" => results[i].rows = RowsAlone(i)

(* In the sequential path a call has added "t" to the caller's list, and
   the call for the next model is still to read it. *)
C10_SharedListWritten ==
    /\ pc = "add_dat_map"
    /\ cat.mp_nprocs = 1
    /\ "t" \in Range(kw_usecols) /\ "t" \notin Range(kw_usecols0)
    /\ \E i \in 1..Len(results) : results[i].status = "pending"

(* The times of the dyn.dat file of model fname, in Myr, that lie between
   the least and the greatest of the target times ts. *)
TimesInRange(fname, ts) ==
    {j \in 1..Len(DirFile(fname)) :
        LET t == RMul(R(DirFile(fname)[j].t), unitdict[<<"myr">>])
        IN RLe(RMin(ts), t) /\ RLe(t, RMax(ts))}

(* The rows of table df for model fname, as positions. *)
ModelRows(df, fname) == {k \in 1..Len(df.rows) : df.rows[k].fname = fname}

(* This step is the return of an add_dat_timesteps call that raised nothing. *)
AddDatReturns ==
    /\ pc = "add_dat_map"
    /\ calls' = Append(calls, "add_dat_timesteps")

(* C11: a call of add_dat_timesteps that returns leaves, for every model of
   the index, no row if none of the model's times is in the range of the
   target times, and otherwise as many rows as there are target times, each
   with the parameters of the model, whether or not two target times select
   the same snapshot. *)
C11_TnumRowsPerModel ==
    [][AddDatReturns =>
          \A i \in 1..Len(cat.df.rows) :
              LET fname == cat.df.rows[i].fname
                  rows == ModelRows(cat'.df, fname)
              IN /\ Cardinality(rows) =
                       IF TimesInRange(fname, task.timesteps) = {} THEN 0
                       ELSE Len(task.timesteps)
                 /\ \A k \in rows : cat'.df.rows[k].params = cat.df.rows[i].params]_vars

(* The part of C11 the code keeps: a model without a time in range leaves no
   row, a model with one leaves a row for every pair of target times that
   select the same snapshot (so no fewer than there are target times, and
   that many when the snapshots selected are distinct), each with the
   parameters of the model. *)
C11_RowsPerPairOfTargets ==
    [][AddDatReturns =>
          \A i \in 1..Len(cat.df.rows) :
              LET fname == cat.df.rows[i].fname
                  rows == ModelRows(cat'.df, fname)
                  picked == results[i].rows
              IN /\ Len(picked) =
                       IF TimesInRange(fname, task.timesteps) = {} THEN 0
                       ELSE Len(task.timesteps)
                 /\ Cardinality(rows) =
                       Cardinality({q \in (1..Len(picked)) \X (1..Len(picked)) :
                                       picked[q[1]].tcount = picked[q[2]].tcount})
                 /\ \A k \in rows : cat'.df.rows[k].params = cat.df.rows[i].params]_vars

(* add_dat_timesteps has just returned, and the table holds four rows or
   more of one (fname, tcount) key: two target times or more selected that
   snapshot. *)
C11_SnapshotRowsMultiplied ==
    /\ pc \in {"cat_ready", "driver_done"}
    /\ calls # <<>> /\ calls[Len(calls)] = "add_dat_timesteps"
    /\ \E k \in 1..Len(cat.df.rows) :
          Cardinality({l \in 1..Len(cat.df.rows) :
                          SameIndex(cat.df.rows[l], cat.df.rows[k])}) >= 4

-----------------------------------------------------------------------------
(* Specification of the matching: match_to_cmc_models from line 70 on, on  *)
(* any table of snapshots and any table of observed clusters.  The columns *)
(* of lines 71 to 75 are logarithms and ratios of columns read from files: *)
(* the tables are given with them.  A model's name gives its rg and its Z, *)
(* so the snapshots of one fname share rg and [Fe/H]; they are adjacent in *)
(* the table and their (fname, tcount) keys are distinct.                  *)

ModelName(rg, met) == <<"rg", rg[1], "FeH", met[1]>>

(* The rows of tbl with their keys: the snapshots of a model counted from 0. *)
WithKeys(tbl) ==
    [i \in 1..Len(tbl) |->
        LET n == Cardinality({j \in 1..(i - 1) :
                                 tbl[j].rg = tbl[i].rg /\ tbl[j].FeH = tbl[i].FeH})
        IN [fname |-> ModelName(tbl[i].rg, tbl[i].FeH), tcount |-> n,
            t |-> R(11000 + 500 * n),
            rg |-> tbl[i].rg, FeH |-> tbl[i].FeH,
            logM |-> tbl[i].logM, rcrh |-> tbl[i].rcrh]]

Adjacent(tbl) ==
    \A i, j, k \in 1..Len(tbl) :
        (i < j /\ j < k /\ tbl[i].rg = tbl[k].rg /\ tbl[i].FeH = tbl[k].FeH)
            => (tbl[j].rg = tbl[i].rg /\ tbl[j].FeH = tbl[i].FeH)

(* Snapshots of two models: <<rg, [Fe/H], logM, rc/rh>>. *)
SnapshotRows ==
    { [rg |-> R(m[1]), FeH |-> R(m[2]), logM |-> R(m[3]), rcrh |-> R(m[4])] :
        m \in {<<2, -2, 1, 0>>, <<2, -2, 0, 1>>, <<8, 0, 1, 0>>} }

SnapshotTables ==
    { WithKeys(tbl) : tbl \in {x \in SeqsUpTo(SnapshotRows, MaxModelRows) \ {<<>>} :
                                  Adjacent(x)} }

(* One snapshot of every model of a grid of rg and [Fe/H] values, the
   larger rg first. *)
RgPool == {2, 8, 20, 26}
MetPool == {-2, 0, 1, 3}

GridTable(rgs, mets) ==
    LET a == sort_unique({R(x) : x \in rgs})
        b == sort_unique({R(x) : x \in mets})
    IN WithKeys([k \in 1..(Len(a) * Len(b)) |->
                    [rg |-> a[Len(a) - ((k - 1) \div Len(b))],
                     FeH |-> b[((k - 1) % Len(b)) + 1],
                     logM |-> R(1), rcrh |-> R(0)]])

GridTables ==
    { GridTable(rgs, mets) :
        rgs \in {x \in SUBSET RgPool : x # {} /\ Cardinality(x) <= MaxAxisVals},
        mets \in {x \in SUBSET MetPool : x # {} /\ Cardinality(x) <= MaxAxisVals} }

(* Observed clusters, named by their position: <<R_GC, [Fe/H], logM>>,
   inside the lowest bins (R_GC 3, [Fe/H] -2) or on the edges that the two
   models above give (R_GC 5, [Fe/H] -1). *)
ClusterRows ==
    { [R_GC |-> R(c[1][1]), FeH |-> R(c[1][2]), logM |-> R(c[2]), rcrh |-> R(0)] :
        c \in {<<3, -2>>, <<5, -1>>, <<3, -1>>} \X {0, 1} }

Named(tbl) ==
    [i \in 1..Len(tbl) |->
        [Cluster |-> i, R_GC |-> tbl[i].R_GC, FeH |-> tbl[i].FeH,
         logM |-> tbl[i].logM, rcrh |-> tbl[i].rcrh]]

ClusterTables == { Named(tbl) : tbl \in SeqsUpTo(ClusterRows, MaxClusters) }

GridClusterTables ==
    { Named(<<[R_GC |-> R(5), FeH |-> R(-1), logM |-> R(0), rcrh |-> R(0)]>>),
      Named(<<[R_GC |-> R(21), FeH |-> R(1), logM |-> R(0), rcrh |-> R(0)]>>) }

InitMatch ==
    /\ pc = "match_start"
    /\ \/ gc_models \in SnapshotTables /\ gc_clusters \in ClusterTables
       \/ gc_models \in GridTables /\ gc_clusters \in GridClusterTables
    /\ loop = NoLoop /\ dfs = <<>> /\ gc_df = <<>>
    /\ IdleParse
    /\ IdleUnits
    /\ IdleName
    /\ IdleSelect
    /\ IdleCatalog

(* Lines 81 to 84: the sorted distinct values of the two axes, no table
   matched yet.  The loops make no pass on a table without snapshots. *)
MatchBegin ==
    /\ pc = "match_start"
    /\ loop' = [NoLoop EXCEPT
                   !.rgs_cmc = sort_unique({gc_models[i].rg : i \in 1..Len(gc_models)}),
                   !.mets_cmc = sort_unique({gc_models[i].FeH : i \in 1..Len(gc_models)}),
                   !.rgi = 1, !.mi = 1, !.status = "ok"]
    /\ dfs' = <<>>
    /\ pc' = IF gc_models = <<>> THEN "match_concat" ELSE "match_loop"
    /\ UNCHANGED <<gc_models, gc_clusters, gc_df,
                   varsParse, varsUnits, varsName, varsSelect, varsCatalog>>

(* One pass of the inner loop (lines 96 to 145), after the head of the outer
   loop (lines 85 to 95) when the pass is the first for its rg.  loop.bins
   is the history of the bins whose edges were set. *)
BinPass ==
    /\ pc = "match_loop"
    /\ LET rgs == loop.rgs_cmc
           mets == loop.mets_cmc
           rg == rgs[loop.rgi]
           met == mets[loop.mi]
           rgb == IF loop.mi = 1
                  THEN bin_bounds(rgs, loop.rgi, loop.rghi)
                  ELSE [status |-> "ok", lo |-> loop.rglo, hi |-> loop.rghi]
           mb == bin_bounds(mets, loop.mi, loop.methi)
           m == match_bin(gc_clusters, gc_models, rg, met, rgb.lo, rgb.hi, mb.lo, mb.hi)
           last == loop.rgi = Len(rgs) /\ loop.mi = Len(mets)
       IN
       IF rgb.status # "ok"
       THEN /\ loop' = [loop EXCEPT !.status = rgb.status]
            /\ pc' = "match_failed"
            /\ UNCHANGED dfs
       ELSE IF mb.status # "ok"
       THEN /\ loop' = [loop EXCEPT !.rglo = rgb.lo, !.rghi = rgb.hi,
                                    !.status = mb.status]
            /\ pc' = "match_failed"
            /\ UNCHANGED dfs
       ELSE /\ loop' = [loop EXCEPT
                           !.rglo = rgb.lo, !.rghi = rgb.hi,
                           !.metlo = mb.lo, !.methi = mb.hi,
                           !.bins = Append(@, [rg |-> rg, met |-> met,
                                               rglo |-> rgb.lo, rghi |-> rgb.hi,
                                               metlo |-> mb.lo, methi |-> mb.hi]),
                           !.mi = IF last THEN @
                                  ELSE IF @ < Len(mets) THEN @ + 1 ELSE 1,
                           !.rgi = IF last \/ loop.mi < Len(mets) THEN @ ELSE @ + 1]
            /\ pc' = IF last THEN "match_concat" ELSE "match_loop"
            /\ \/ m.status = "ok" /\ dfs' = Append(dfs, m.rows)
               \/ m.status = "ValueError" /\ dfs' = dfs
               \/ m.status = "empty" /\ dfs' \in {dfs, Append(dfs, <<>>)}
    /\ UNCHANGED <<gc_models, gc_clusters, gc_df,
                   varsParse, varsUnits, varsName, varsSelect, varsCatalog>>

(* Line 147: the matched tables concatenated; pd.concat raises a ValueError
   on an empty list. *)
MatchFinish ==
    /\ pc = "match_concat"
    /\ IF dfs = <<>>
       THEN /\ loop' = [loop EXCEPT !.status = "ValueError"]
            /\ pc' = "match_failed"
            /\ UNCHANGED gc_df
       ELSE /\ gc_df' = concat(dfs, 1)
            /\ pc' = "match_done"
            /\ UNCHANGED loop
    /\ UNCHANGED <<gc_models, gc_clusters, dfs,
                   varsParse, varsUnits, varsName, varsSelect, varsCatalog>>

NextMatch == MatchBegin \/ BinPass \/ MatchFinish

SpecMatch == InitMatch /\ [][NextMatch]_vars

(* The bins as the specification describes them, from the set V of the
   distinct values of an axis: the edges of the bin of v are the midpoints
   to the values next to v, or an infinity where there is none. *)
RgValues == {gc_models[i].rg : i \in 1..Len(gc_models)}
MetValues == {gc_models[i].FeH : i \in 1..Len(gc_models)}

LowerEdge(V, v) ==
    LET below == {x \in V : RLt(x, v)}
    IN IF below = {} THEN NegInf
       ELSE RDiv(RAdd(CHOOSE x \in below : \A y \in below : RLe(y, x), v), R(2))

UpperEdge(V, v) ==
    LET above == {x \in V : RLt(v, x)}
    IN IF above = {} THEN PosInf
       ELSE RDiv(RAdd(v, CHOOSE x \in above : \A y \in above : RLe(x, y)), R(2))

(* Equality of edges: of two rationals, or of an infinity and itself. *)
SameEdge(a, b) == IF a[2] = 0 \/ b[2] = 0 THEN a = b ELSE REq(a, b)

(* Cluster c falls in the bin of the generating values rg and met. *)
FallsInBin(c, rg, met) ==
    /\ RLe(LowerEdge(RgValues, rg), c.R_GC) /\ RLt(c.R_GC, UpperEdge(RgValues, rg))
    /\ RLe(LowerEdge(MetValues, met), c.FeH) /\ RLt(c.FeH, UpperEdge(MetValues, met))

(* The snapshots of the bin of rg and met, as positions in the model table. *)
BinSnapshots(rg, met) ==
    {j \in 1..Len(gc_models) : REq(gc_models[j].rg, rg) /\ REq(gc_models[j].FeH, met)}

SquaredDistance(c, m) ==
    RAdd(RMul(RSub(c.logM, m.logM), RSub(c.logM, m.logM)),
         RMul(RSub(c.rcrh, m.rcrh), RSub(c.rcrh, m.rcrh)))

(* Row r of a matched table has the key of a snapshot of r's own bin that
   is nearest to r among the bin's snapshots, and of the first such one. *)
NearestFirst(r) ==
    \E i \in 1..Len(gc_models) :
        /\ r.fname = gc_models[i].fname /\ r.tcount = gc_models[i].tcount
        /\ FallsInBin(r, gc_models[i].rg, gc_models[i].FeH)
        /\ \A j \in BinSnapshots(gc_models[i].rg, gc_models[i].FeH) :
              \/ RLt(SquaredDistance(r, gc_models[i]), SquaredDistance(r, gc_models[j]))
              \/ /\ REq(SquaredDistance(r, gc_models[i]), SquaredDistance(r, gc_models[j]))
                 /\ i <= j

MatchedRows == UNION {Range(dfs[k]) : k \in 1..Len(dfs)}

(* C1: in every bin the loops have passed that holds a cluster and a
   snapshot, every cluster of the bin has a matched row, and every matched
   row bears the key of the snapshot of its bin at the least sum of squared
   differences over logM and rc/rh, the first in the model table of those
   at that distance. *)
C1_NearestSnapshotFirstOnTies ==
    /\ \A r \in MatchedRows : NearestFirst(r)
    /\ \A k \in 1..Len(loop.bins) : \A i \in 1..Len(gc_clusters) :
          (/\ FallsInBin(gc_clusters[i], loop.bins[k].rg, loop.bins[k].met)
           /\ BinSnapshots(loop.bins[k].rg, loop.bins[k].met) # {})
              => \E r \in MatchedRows : r.Cluster = gc_clusters[i].Cluster

(* The matching is done; one cluster had two snapshots of its bin at the
   same least distance and got the first, another got a snapshot that is
   not the first of its bin in the table. *)
C1_Witness ==
    /\ pc = "match_done"
    /\ \E r \in Range(gc_df) : \E i, j \in 1..Len(gc_models) :
          /\ i < j
          /\ r.fname = gc_models[i].fname /\ r.tcount = gc_models[i].tcount
          /\ j \in BinSnapshots(gc_models[i].rg, gc_models[i].FeH)
          /\ REq(SquaredDistance(r, gc_models[i]), SquaredDistance(r, gc_models[j]))
    /\ \E r \in Range(gc_df) : \E i, j \in 1..Len(gc_models) :
          /\ i < j
          /\ r.fname = gc_models[j].fname /\ r.tcount = gc_models[j].tcount
          /\ i \in BinSnapshots(gc_models[j].rg, gc_models[j].FeH)
          /\ RLt(SquaredDistance(r, gc_models[j]), SquaredDistance(r, gc_models[i]))

(* The rows of the result table for the cluster named n. *)
ResultRows(n) == {k \in 1..Len(gc_df) : gc_df[k].Cluster = n}

(* The clusters whose bin holds a snapshot, as positions in the table. *)
InNonEmptyBin ==
    {i \in 1..Len(gc_clusters) :
        \E j \in 1..Len(gc_models) :
            FallsInBin(gc_clusters[i], gc_models[j].rg, gc_models[j].FeH)}

(* C2: the result table holds one row for every cluster whose bin holds a
   snapshot and none for any other cluster, so it has as many rows as there
   are clusters in bins with a snapshot; and no pass over a bin, empty or
   not, ends the matching with an error. *)
C2_OnceIfBinHasSnapshot ==
    /\ pc = "match_done" =>
          /\ \A i \in 1..Len(gc_clusters) :
                Cardinality(ResultRows(gc_clusters[i].Cluster))
                    = IF i \in InNonEmptyBin THEN 1 ELSE 0
          /\ Len(gc_df) = Cardinality(InNonEmptyBin)
    /\ pc = "match_failed" => loop.bins = <<>>

(* The matching is done after a pass over a bin with clusters and no
   snapshot; a cluster of that bin is absent from the result, and a cluster
   on the edges of two bins is there. *)
C2_Witness ==
    /\ pc = "match_done"
    /\ \E i \in 1..Len(gc_clusters) :
          /\ i \notin InNonEmptyBin
          /\ ResultRows(gc_clusters[i].Cluster) = {}
    /\ \E i \in 1..Len(gc_clusters) :
          /\ SameEdge(gc_clusters[i].R_GC, UpperEdge(RgValues, CHOOSE v \in RgValues :
                                                        \A w \in RgValues : RLe(v, w)))
          /\ ResultRows(gc_clusters[i].Cluster) # {}

(* Bin b of the history has the edges of the specification, with its
   generating values strictly inside. *)
EdgesAsSpecified(b) ==
    /\ SameEdge(b.rglo, LowerEdge(RgValues, b.rg))
    /\ SameEdge(b.rghi, UpperEdge(RgValues, b.rg))
    /\ SameEdge(b.metlo, LowerEdge(MetValues, b.met))
    /\ SameEdge(b.methi, UpperEdge(MetValues, b.met))
    /\ RLt(b.rglo, b.rg) /\ RLt(b.rg, b.rghi)
    /\ RLt(b.metlo, b.met) /\ RLt(b.met, b.methi)

(* Bin b follows bin a in the loops: on the same radius bin its lower
   metallicity edge is the upper one of a; on the next radius bin its lower
   radius edge is the upper one of a and its metallicity bin is the first. *)
Contiguous(a, b) ==
    IF REq(a.rg, b.rg)
    THEN /\ SameEdge(b.rglo, a.rglo) /\ SameEdge(b.rghi, a.rghi)
         /\ SameEdge(b.metlo, a.methi)
    ELSE /\ SameEdge(b.rglo, a.rghi)
         /\ b.metlo = NegInf /\ a.methi = PosInf

BinsPartition ==
    /\ \A k \in 1..Len(loop.bins) : EdgesAsSpecified(loop.bins[k])
    /\ \A k \in 2..Len(loop.bins) : Contiguous(loop.bins[k - 1], loop.bins[k])
    /\ pc \in {"match_concat", "match_done"} =>
          /\ Len(loop.bins) = Cardinality(RgValues) * Cardinality(MetValues)
          /\ loop.bins[1].rglo = NegInf
          /\ loop.bins[Len(loop.bins)].rghi = PosInf

(* C3: whatever the number of distinct values on the two axes, one or
   more, the loops build the bins (no pass fails on the edges), with the
   midpoints and the infinities as edges, contiguous, each generating value
   strictly inside its bin. *)
C3_BinsPartitionAnyLength ==
    /\ loop.status # "IndexError"
    /\ BinsPartition

(* The part of C3 the code keeps: with two values or more on both axes the
   bins are as specified; only an axis of one value fails. *)
C3_BinsPartitionFromTwoValues ==
    /\ loop.status = "IndexError" =>
          Cardinality(RgValues) = 1 \/ Cardinality(MetValues) = 1
    /\ (Cardinality(RgValues) >= 2 /\ Cardinality(MetValues) >= 2) =>
          pc # "match_failed"
    /\ BinsPartition

(* The models have one rg value, or one [Fe/H] value, and the first pass
   has failed reading the value after it. *)
C3_SingleValueFails ==
    /\ pc = "match_failed"
    /\ loop.status = "IndexError"
    /\ Cardinality(RgValues) = 1 \/ Cardinality(MetValues) = 1
    /\ gc_clusters # <<>>

====
